---- MODULE Spec2Model ----
(***************************************************************************)
(* Model of src/services/auth.service.js: the signup, login, getMe,        *)
(* requestPasswordReset, resetPassword and logout handlers, run by         *)
(* concurrent requests against the user store and the reset-token store.  *)
(*                                                                         *)
(* Granularity: every `await` on a store operation is one step.  A step    *)
(* performs the store operation and the synchronous code that follows it   *)
(* up to the next store operation (or the return).  Awaits on the signer   *)
(* (signAccessToken, signRefreshToken, verifyRefreshToken) touch no shared *)
(* state and are folded into the step they belong to.                      *)
(*                                                                         *)
(* The models (users.model, token.model), utils/response and               *)
(* utils/jwtHelper are not part of src/; their behaviour is taken from     *)
(* the specification document.                                             *)
(***************************************************************************)
EXTENDS Integers, FiniteSets, Sequences, TLC

\* ---- bounds ------------------------------------------------------------
NProc == 2
MaxUsers == 2
MaxTokens == 2
MaxTime == 1
MaxRequests == 4

Procs == 1..NProc
UserIds == 1..MaxUsers
TokenVals == 1..MaxTokens
Emails == {"a@x.com", "b@x.com"}
Passwords == {"Secret1!", "Secret2!"}

\* lifetime of a reset token, in clock ticks
ResetTTL == 1

VARIABLES
  users,          \* user collection: set of [id, email, password]
  tokens,         \* reset-token collection: set of [id, userId, resetPasswordToken, resetPasswordExpires]
  nextUid,        \* next ObjectId handed to a new User
  nextTid,        \* next fresh token document / token value
  now,            \* wall clock
  issuedRefresh,  \* user ids for which a refresh token has been signed
  started,        \* number of requests accepted so far
  pc,             \* per request slot: position in the handler
  req,            \* per request slot: the request (body, params)
  loc,            \* per request slot: the handler's local variables
  res,            \* per request slot: what the handler returned
  cookies,        \* per request slot: cookie operations made on `res`
  consumed,       \* history: (userId, token) pairs for which resetPassword returned 200
  retLog          \* history: per user, token values returned by requestPasswordReset
                  \*          since the last successful resetPassword of that user

dbVars == <<users, tokens, nextUid, nextTid, now, issuedRefresh>>
procVars == <<pc, req, loc, res, cookies>>
histVars == <<consumed, retLog>>
vars == <<users, tokens, nextUid, nextTid, now, issuedRefresh, started,
          pc, req, loc, res, cookies, consumed, retLog>>

\* ---- values ------------------------------------------------------------
NoUser == [id |-> 0, email |-> "none", password |-> <<>>]
NoRefresh == [present |-> FALSE, ok |-> FALSE, uid |-> 0]
NoReq == [op |-> "none", valid |-> TRUE, email |-> "none", password |-> "none",
          userId |-> 0, token |-> 0, refreshToken |-> NoRefresh]
NoLoc == [user |-> 0, email |-> "none", tokId |-> 0, tokVal |-> 0, tokExp |-> 0,
          late |-> FALSE, wrote |-> FALSE, mail |-> "none", path |-> "none"]
NoCookies == [set |-> {}, cleared |-> {}]

\* payloads: {} , [] , the three tokens, the user, the raw reset token
EmptyPayload == [kind |-> "object", uid |-> 0, tok |-> 0]
ListPayload == [kind |-> "array", uid |-> 0, tok |-> 0]
TokensPayload(uid) == [kind |-> "tokens", uid |-> uid, tok |-> 0]
UserPayload(uid) == [kind |-> "user", uid |-> uid, tok |-> 0]
ResetPayload(tok) == [kind |-> "resetToken", uid |-> 0, tok |-> tok]

\* the envelope built by utils/response: (data, success, error, message, status)
Response(data, success, isError, message, statusCode) ==
  [payload |-> data, success |-> success, isError |-> isError,
   message |-> message, statusCode |-> statusCode, fwd |-> "none"]

\* `return next(error)`: no envelope, the error goes to the error middleware
NextError(name) ==
  [payload |-> EmptyPayload, success |-> FALSE, isError |-> TRUE,
   message |-> <<>>, statusCode |-> 0, fwd |-> name]

NoRes == [payload |-> EmptyPayload, success |-> FALSE, isError |-> FALSE,
          message |-> <<>>, statusCode |-> 0, fwd |-> "none"]

\* first message of validationResult(req), code 422
ValidationFailed == Response(EmptyPayload, FALSE, TRUE, <<"validation error">>, 422)

\* ---- user model ---------------------------------------------------------
\* pre-save hook: the password is stored as a one-way hash
Hash(pw) == <<"bcrypt", pw>>

comparePassword(user, pw) == user.password = Hash(pw)

UserByEmail(e) ==
  IF \E u \in users : u.email = e
  THEN CHOOSE u \in users : u.email = e
  ELSE NoUser

UserById(id) ==
  IF \E u \in users : u.id = id
  THEN CHOOSE u \in users : u.id = id
  ELSE NoUser

\* unique index on email: error code of an insert, 0 when it succeeds
UserInsertError(e) == IF \E u \in users : u.email = e THEN 11000 ELSE 0

\* ---- token model --------------------------------------------------------
TokensOfUser(uid) == {t \in tokens : t.userId = uid}

Expired(t) == t.resetPasswordExpires <= now

TokenInsertError_NoIndex(uid) == 0

\* unique index on userId: error code of an insert, 0 when it succeeds
TokenInsertError(uid) == IF TokensOfUser(uid) # {} THEN 11000 ELSE 0

\* ---- helpers of the request slots ---------------------------------------
Finish(p, r) ==
  /\ pc' = [pc EXCEPT ![p] = "done"]
  /\ res' = [res EXCEPT ![p] = r]

Goto(p, label) ==
  /\ pc' = [pc EXCEPT ![p] = label]
  /\ UNCHANGED res

Path(p, tag) == [loc[p] EXCEPT !.path = tag]

\* a request is accepted into a free slot
Accept(p) ==
  /\ pc[p] = "idle"
  /\ started < MaxRequests
  /\ started' = started + 1

\* ---- Init ---------------------------------------------------------------
Init ==
  /\ users = {}
  /\ tokens = {}
  /\ nextUid = 1
  /\ nextTid = 1
  /\ now = 0
  /\ issuedRefresh = {}
  /\ started = 0
  /\ pc = [p \in Procs |-> "idle"]
  /\ req = [p \in Procs |-> NoReq]
  /\ loc = [p \in Procs |-> NoLoc]
  /\ res = [p \in Procs |-> NoRes]
  /\ cookies = [p \in Procs |-> NoCookies]
  /\ consumed = {}
  /\ retLog = [u \in UserIds |-> {}]

\* ---- signup -------------------------------------------------------------
\* lines 19-51: validation, then `new User({_id: new ObjectId(), ...})`
StartSignup(p) ==
  /\ Accept(p)
  /\ \E valid \in BOOLEAN, e \in Emails, pw \in Passwords :
       /\ req' = [req EXCEPT ![p] = [NoReq EXCEPT !.op = "signup", !.valid = valid,
                                                  !.email = e, !.password = pw]]
       /\ IF ~valid
          THEN /\ Finish(p, ValidationFailed)
               /\ loc' = [loc EXCEPT ![p] = Path(p, "invalid")]
               /\ UNCHANGED nextUid
          ELSE /\ nextUid <= MaxUsers
               /\ Goto(p, "su_save")
               /\ loc' = [loc EXCEPT ![p] = [NoLoc EXCEPT !.user = nextUid]]
               /\ nextUid' = nextUid + 1
  /\ UNCHANGED <<users, tokens, nextTid, now, issuedRefresh, cookies>>
  /\ UNCHANGED histVars

SignupCatch_WrongCode(code, email) ==
  IF code = 1100
  THEN Response(EmptyPayload, FALSE, TRUE,
                <<"E-Mail address  ", email, " is already exists, please pick a different one.">>, 409)
  ELSE NextError("StoreError")

\* lines 71-86: the catch block
SignupCatch(code, email) ==
  IF code = 11000
  THEN Response(EmptyPayload, FALSE, TRUE,
                <<"E-Mail address  ", email, " is already exists, please pick a different one.">>, 409)
  ELSE NextError("StoreError")

\* lines 53-67: newUser.save(), then the three tokens
SignupSave(p) ==
  /\ pc[p] = "su_save"
  /\ LET e == req[p].email
         err == UserInsertError(e)
     IN IF err # 0
        THEN /\ Finish(p, SignupCatch(err, e))
             /\ loc' = [loc EXCEPT ![p] = Path(p, "duplicate_email")]
             /\ UNCHANGED <<users, issuedRefresh>>
        ELSE /\ users' = users \cup {[id |-> loc[p].user, email |-> e,
                                      password |-> Hash(req[p].password)]}
             /\ issuedRefresh' = issuedRefresh \cup {loc[p].user}
             /\ Finish(p, Response(TokensPayload(loc[p].user), TRUE, FALSE,
                                   <<"Registered Successfully">>, 201))
             /\ loc' = [loc EXCEPT ![p] = Path(p, "registered")]
  /\ UNCHANGED <<tokens, nextUid, nextTid, now, req, cookies>>
  /\ UNCHANGED histVars
  /\ UNCHANGED started

\* ---- login --------------------------------------------------------------

StartLogin(p) ==
  /\ Accept(p)
  /\ \E valid \in BOOLEAN, e \in Emails, pw \in Passwords :
       /\ req' = [req EXCEPT ![p] = [NoReq EXCEPT !.op = "login", !.valid = valid,
                                                  !.email = e, !.password = pw]]
       /\ IF ~valid
          THEN /\ Finish(p, ValidationFailed)
               /\ loc' = [loc EXCEPT ![p] = Path(p, "invalid")]
          ELSE /\ Goto(p, "li_find")
               /\ loc' = [loc EXCEPT ![p] = NoLoc]
  /\ UNCHANGED <<cookies>>
  /\ UNCHANGED dbVars
  /\ UNCHANGED histVars

LoginNoUser_NotFound == Response(EmptyPayload, FALSE, TRUE, <<"User not found">>, 404)

\* line 117
LoginNoUser == Response(EmptyPayload, FALSE, TRUE, <<"Auth Failed (Invalid Credentials)">>, 401)

\* line 124
LoginBadPassword == Response(EmptyPayload, FALSE, TRUE, <<"Auth Failed (Invalid Credentials)">>, 401)

\* lines 112-170: User.findOne({email}), comparePassword on the loaded
\* document, the tokens, the three cookies
LoginFind(p) ==
  /\ pc[p] = "li_find"
  /\ LET user == UserByEmail(req[p].email)
     IN IF user = NoUser
        THEN /\ Finish(p, LoginNoUser)
             /\ loc' = [loc EXCEPT ![p] = Path(p, "no_user")]
             /\ UNCHANGED <<issuedRefresh, cookies>>
        ELSE IF ~comparePassword(user, req[p].password)
        THEN /\ Finish(p, LoginBadPassword)
             /\ loc' = [loc EXCEPT ![p] = [Path(p, "bad_password") EXCEPT !.user = user.id]]
             /\ UNCHANGED <<issuedRefresh, cookies>>
        ELSE /\ issuedRefresh' = issuedRefresh \cup {user.id}
             /\ cookies' = [cookies EXCEPT ![p] =
                              [set |-> {"authToken", "accessToken", "refreshToken"},
                               cleared |-> {}]]
             /\ Finish(p, Response(UserPayload(user.id), TRUE, FALSE,
                                   <<"Auth successful">>, 200))
             /\ loc' = [loc EXCEPT ![p] = [Path(p, "logged_in") EXCEPT !.user = user.id]]
  /\ UNCHANGED <<users, tokens, nextUid, nextTid, now, req>>
  /\ UNCHANGED histVars
  /\ UNCHANGED started

\* ---- getMe --------------------------------------------------------------
\* lines 182-188: req.user was set by the authentication middleware

GetMe(p) ==
  /\ Accept(p)
  /\ \E u \in users :
       /\ req' = [req EXCEPT ![p] = [NoReq EXCEPT !.op = "getMe", !.userId = u.id]]
       /\ Finish(p, Response(UserPayload(u.id), TRUE, FALSE,
                             <<"Successfully found user profile">>, 200))
  /\ loc' = [loc EXCEPT ![p] = Path(p, "profile")]
  /\ UNCHANGED <<cookies>>
  /\ UNCHANGED dbVars
  /\ UNCHANGED histVars

\* ---- requestPasswordReset -----------------------------------------------
StartRequest(p) ==
  /\ Accept(p)
  /\ \E valid \in BOOLEAN, e \in Emails :
       /\ req' = [req EXCEPT ![p] = [NoReq EXCEPT !.op = "request", !.valid = valid,
                                                  !.email = e]]
       /\ IF ~valid
          THEN /\ Finish(p, ValidationFailed)
               /\ loc' = [loc EXCEPT ![p] = Path(p, "invalid")]
          ELSE /\ Goto(p, "rq_user")
               /\ loc' = [loc EXCEPT ![p] = NoLoc]
  /\ UNCHANGED <<cookies>>
  /\ UNCHANGED dbVars
  /\ UNCHANGED histVars

\* lines 212-218: User.findOne({email})
ReqFindUser(p) ==
  /\ pc[p] = "rq_user"
  /\ LET user == UserByEmail(req[p].email)
     IN IF user = NoUser
        THEN /\ Finish(p, Response(EmptyPayload, FALSE, TRUE,
                        <<"The email address ", req[p].email,
                          " is not associated with any account. Double-check your email address and try again.">>,
                        401))
             /\ loc' = [loc EXCEPT ![p] = Path(p, "no_user")]
        ELSE /\ Goto(p, "rq_tok")
             /\ loc' = [loc EXCEPT ![p].user = user.id]
  /\ UNCHANGED <<req, cookies>>
  /\ UNCHANGED dbVars
  /\ UNCHANGED histVars
  /\ UNCHANGED started

\* lines 231-236: the link, the e-mail (loc.mail), the envelope carrying the raw token

HandOut(p, t, tag) ==
  /\ retLog' = [retLog EXCEPT ![t.userId] = @ \cup {t.resetPasswordToken}]
  /\ Finish(p, Response(ResetPayload(t.resetPasswordToken), TRUE, FALSE,
                        <<"A reset email has been sent to ", req[p].email, ".">>, 200))
  /\ loc' = [loc EXCEPT ![p] = [Path(p, tag) EXCEPT !.tokVal = t.resetPasswordToken,
                                                     !.mail = "resetPassword"]]

\* a stored token is regenerated and saved again instead of being handed out as it is
ReqFindToken_Rotate(p) ==
  /\ pc[p] = "rq_tok"
  /\ nextTid <= MaxTokens
  /\ IF TokensOfUser(loc[p].user) # {}
     THEN LET t == CHOOSE x \in TokensOfUser(loc[p].user) : TRUE
              r == [t EXCEPT !.resetPasswordToken = nextTid,
                             !.resetPasswordExpires = now + ResetTTL]
          IN /\ tokens' = (tokens \ {t}) \cup {r}
             /\ HandOut(p, r, "reused")
     ELSE /\ Goto(p, "rq_save")
          /\ loc' = [loc EXCEPT ![p].tokId = nextTid, ![p].tokVal = nextTid,
                                ![p].tokExp = now + ResetTTL]
          /\ UNCHANGED <<tokens, retLog>>
  /\ nextTid' = nextTid + 1
  /\ UNCHANGED <<users, nextUid, now, issuedRefresh, req, cookies, consumed>>
  /\ UNCHANGED started

\* lines 220-226 (and 231-236 when a token is stored): Token.findOne({userId}),
\* then either the stored token is handed out or a new one is generated

ReqFindToken(p) ==
  /\ pc[p] = "rq_tok"
  /\ IF TokensOfUser(loc[p].user) # {}
     THEN /\ HandOut(p, CHOOSE t \in TokensOfUser(loc[p].user) : TRUE, "reused")
          /\ UNCHANGED nextTid
     ELSE /\ nextTid <= MaxTokens
          /\ Goto(p, "rq_save")
          /\ loc' = [loc EXCEPT ![p].tokId = nextTid, ![p].tokVal = nextTid,
                                ![p].tokExp = now + ResetTTL]
          /\ nextTid' = nextTid + 1
          /\ UNCHANGED <<retLog>>
  /\ UNCHANGED <<users, tokens, nextUid, now, issuedRefresh, req, cookies, consumed>>
  /\ UNCHANGED started

\* lines 228-236: token.save(), then the e-mail and the envelope

ReqSaveToken(p) ==
  /\ pc[p] = "rq_save"
  /\ IF TokenInsertError(loc[p].user) # 0
     THEN /\ Finish(p, NextError("DuplicateKey"))
          /\ loc' = [loc EXCEPT ![p] = Path(p, "duplicate_token")]
          /\ UNCHANGED <<tokens, retLog>>
     ELSE LET t == [id |-> loc[p].tokId, userId |-> loc[p].user,
                    resetPasswordToken |-> loc[p].tokVal,
                    resetPasswordExpires |-> loc[p].tokExp]
          IN /\ tokens' = tokens \cup {t}
             /\ HandOut(p, t, "created")
  /\ UNCHANGED <<users, nextUid, nextTid, now, issuedRefresh, req, cookies, consumed>>
  /\ UNCHANGED started

\* ---- resetPassword ------------------------------------------------------

InvalidOrExpired ==
  Response(EmptyPayload, FALSE, TRUE, <<"Password reset token is invalid or has expired.">>, 400)

StartReset(p) ==
  /\ Accept(p)
  /\ \E valid \in BOOLEAN, u \in UserIds, tok \in TokenVals, pw \in Passwords :
       /\ req' = [req EXCEPT ![p] = [NoReq EXCEPT !.op = "reset", !.valid = valid,
                                                  !.userId = u, !.token = tok,
                                                  !.password = pw]]
       /\ IF ~valid
          THEN /\ Finish(p, ValidationFailed)
               /\ loc' = [loc EXCEPT ![p] = [Path(p, "invalid") EXCEPT
                                               !.late = <<u, tok>> \in consumed]]
          ELSE /\ Goto(p, "rs_user")
               /\ loc' = [loc EXCEPT ![p] = [NoLoc EXCEPT !.late = <<u, tok>> \in consumed]]
  /\ UNCHANGED <<cookies>>
  /\ UNCHANGED dbVars
  /\ UNCHANGED histVars

\* lines 265-266: User.findById(req.params.userId)
ResetFindUser(p) ==
  /\ pc[p] = "rs_user"
  /\ LET user == UserById(req[p].userId)
     IN IF user = NoUser
        THEN /\ Finish(p, InvalidOrExpired)
             /\ loc' = [loc EXCEPT ![p] = Path(p, "no_user")]
        ELSE /\ Goto(p, "rs_tok")
             /\ loc' = [loc EXCEPT ![p].user = user.id, ![p].email = user.email]
  /\ UNCHANGED <<req, cookies>>
  /\ UNCHANGED dbVars
  /\ UNCHANGED histVars
  /\ UNCHANGED started

ResetTokenQuery_UserOnly(uid, tok) == {t \in tokens : t.userId = uid}

\* lines 268-271: the filter {userId: user._id, resetPasswordToken: req.params.token}
ResetTokenQuery(uid, tok) ==
  {t \in tokens : t.userId = uid /\ t.resetPasswordToken = tok}

\* lines 268-273: Token.findOne(filter)
ResetFindToken(p) ==
  /\ pc[p] = "rs_tok"
  /\ LET found == ResetTokenQuery(loc[p].user, req[p].token)
     IN IF found = {}
        THEN /\ Finish(p, InvalidOrExpired)
             /\ loc' = [loc EXCEPT ![p] = Path(p, "no_token")]
        ELSE /\ Goto(p, "rs_save")
             /\ loc' = [loc EXCEPT ![p].tokId = (CHOOSE t \in found : TRUE).id,
                                   ![p].tokExp = (CHOOSE t \in found : TRUE).resetPasswordExpires]
  /\ UNCHANGED <<req, cookies>>
  /\ UNCHANGED dbVars
  /\ UNCHANGED histVars
  /\ UNCHANGED started

\* lines 275-277: user.password = ...; user.save() updates the stored
\* document of that id (and fails when the document is gone)

ResetSaveUser(p) ==
  /\ pc[p] = "rs_save"
  /\ LET user == UserById(loc[p].user)
     IN IF user = NoUser
        THEN /\ Finish(p, NextError("DocumentNotFoundError"))
             /\ loc' = [loc EXCEPT ![p] = Path(p, "user_gone")]
             /\ UNCHANGED users
        ELSE /\ users' = (users \ {user}) \cup
                           {[user EXCEPT !.password = Hash(req[p].password)]}
             /\ Goto(p, "rs_del")
             /\ loc' = [loc EXCEPT ![p].wrote = TRUE]
  /\ UNCHANGED <<tokens, nextUid, nextTid, now, issuedRefresh, req, cookies>>
  /\ UNCHANGED histVars
  /\ UNCHANGED started

\* what lines 280-284 do after the token step: confirmation e-mail, envelope

ResetDone(p) ==
  /\ consumed' = consumed \cup {<<req[p].userId, req[p].token>>}
  /\ retLog' = [retLog EXCEPT ![req[p].userId] = {}]
  /\ Finish(p, Response(EmptyPayload, TRUE, FALSE,
                        <<"Your password has been Password Reset Successfully updated.">>, 200))
  /\ loc' = [loc EXCEPT ![p] = [Path(p, "reset") EXCEPT !.mail = "confirmResetPassword"]]
  /\ UNCHANGED <<users, nextUid, nextTid, now, issuedRefresh, req, cookies>>
  /\ UNCHANGED started

\* the consumed token is left in the store

ResetDeleteToken_Keep(p) ==
  /\ pc[p] = "rs_del"
  /\ UNCHANGED tokens
  /\ ResetDone(p)

\* lines 278-284: passwordResetToken.delete() removes the document of that
\* _id, then the confirmation e-mail and the 200 envelope
ResetDeleteToken(p) ==
  /\ pc[p] = "rs_del"
  /\ tokens' = {t \in tokens : t.id # loc[p].tokId}
  /\ ResetDone(p)

\* ---- logout -------------------------------------------------------------
\* refresh tokens a client can send: none, one that does not verify, or one
\* signed by signup/login for some user id
RefreshInputs ==
  {NoRefresh, [present |-> TRUE, ok |-> FALSE, uid |-> 0]}
    \cup {[present |-> TRUE, ok |-> TRUE, uid |-> u] : u \in issuedRefresh}

\* lines 297-298
StartLogout(p) ==
  /\ Accept(p)
  /\ \E rt \in RefreshInputs :
       /\ req' = [req EXCEPT ![p] = [NoReq EXCEPT !.op = "logout", !.refreshToken = rt]]
       /\ IF ~rt.present
          THEN /\ Finish(p, Response(EmptyPayload, FALSE, TRUE,
                          <<"Bad Request Please provide a valid  refreshToken.">>, 422))
               /\ loc' = [loc EXCEPT ![p] = Path(p, "no_refresh_token")]
          ELSE /\ Goto(p, "lo_find")
               /\ loc' = [loc EXCEPT ![p] = NoLoc]
  /\ UNCHANGED <<cookies>>
  /\ UNCHANGED dbVars
  /\ UNCHANGED histVars

LogoutUserMissing_Never(user) == FALSE

\* line 306: if (!user)
LogoutUserMissing(user) == user = NoUser

\* line 309: the expression statement `s`. No binding of that name exists in
\* the module or in the global object, so evaluating it throws.
StrayIdentifierBound == FALSE

\* lines 300-323: verifyRefreshToken, User.findById, the statement `s`,
\* the two clearCookie calls
LogoutFind(p) ==
  /\ pc[p] = "lo_find"
  /\ LET rt == req[p].refreshToken
         user == UserById(rt.uid)
     IN IF ~rt.ok
        THEN /\ Finish(p, NextError("JsonWebTokenError"))
             /\ loc' = [loc EXCEPT ![p] = Path(p, "bad_refresh_token")]
             /\ UNCHANGED cookies
        ELSE IF LogoutUserMissing(user)
        THEN /\ Finish(p, Response(ListPayload, FALSE, TRUE, <<"Unauthenticated">>, 400))
             /\ loc' = [loc EXCEPT ![p] = Path(p, "no_user")]
             /\ UNCHANGED cookies
        ELSE IF ~StrayIdentifierBound
        THEN /\ Finish(p, NextError("ReferenceError"))
             /\ loc' = [loc EXCEPT ![p] = [Path(p, "reference_error") EXCEPT !.user = user.id]]
             /\ UNCHANGED cookies
        ELSE /\ cookies' = [cookies EXCEPT ![p] =
                              [set |-> {}, cleared |-> {"accessToken", "refreshToken"}]]
             /\ Finish(p, Response(ListPayload, FALSE, TRUE,
                                   <<"Successfully logged out">>, 200))
             /\ loc' = [loc EXCEPT ![p] = [Path(p, "logged_out") EXCEPT !.user = user.id]]
  /\ UNCHANGED <<req>>
  /\ UNCHANGED dbVars
  /\ UNCHANGED histVars
  /\ UNCHANGED started

\* ---- environment --------------------------------------------------------
\* the controller sends the result; the slot is free for the next request
Respond(p) ==
  /\ pc[p] = "done"
  /\ pc' = [pc EXCEPT ![p] = "idle"]
  /\ req' = [req EXCEPT ![p] = NoReq]
  /\ loc' = [loc EXCEPT ![p] = NoLoc]
  /\ res' = [res EXCEPT ![p] = NoRes]
  /\ cookies' = [cookies EXCEPT ![p] = NoCookies]
  /\ UNCHANGED dbVars
  /\ UNCHANGED histVars
  /\ UNCHANGED started

\* time passes

Tick ==
  /\ now < MaxTime
  /\ now' = now + 1
  /\ UNCHANGED <<users, tokens, nextUid, nextTid, issuedRefresh>>
  /\ UNCHANGED procVars
  /\ UNCHANGED histVars
  /\ UNCHANGED started

\* an account is removed (by another part of the application)

DeleteUser(u) ==
  /\ u \in users
  /\ users' = users \ {u}
  /\ UNCHANGED <<tokens, nextUid, nextTid, now, issuedRefresh>>
  /\ UNCHANGED procVars
  /\ UNCHANGED histVars
  /\ UNCHANGED started

Next ==
  \/ \E p \in Procs :
        \/ StartSignup(p) \/ SignupSave(p)
        \/ StartLogin(p) \/ LoginFind(p)
        \/ GetMe(p)
        \/ StartRequest(p) \/ ReqFindUser(p) \/ ReqFindToken(p) \/ ReqSaveToken(p)
        \/ StartReset(p) \/ ResetFindUser(p) \/ ResetFindToken(p)
        \/ ResetSaveUser(p) \/ ResetDeleteToken(p)
        \/ StartLogout(p) \/ LogoutFind(p)
        \/ Respond(p)
  \/ Tick
  \/ \E u \in users : DeleteUser(u)

Spec == Init /\ [][Next]_vars

\* ==== claims ==============================================================

\* C1: once a resetPassword call for (userId, token) has returned the 200
\* envelope, every validation-clean resetPassword call that starts later with
\* the same userId and token never reaches the password write and returns the
\* 400 "Password reset token is invalid or has expired." envelope.
C1_ConsumedTokenStaysInvalid ==
  \A p \in Procs :
    (req[p].op = "reset" /\ req[p].valid /\ loc[p].late) =>
      /\ pc[p] \notin {"rs_save", "rs_del"}
      /\ ~loc[p].wrote
      /\ pc[p] = "done" =>
           res[p] = [payload |-> EmptyPayload, success |-> FALSE, isError |-> TRUE,
                     message |-> <<"Password reset token is invalid or has expired.">>,
                     statusCode |-> 400, fwd |-> "none"]

\* a later call with a consumed (userId, token), whose user still exists, was turned down
C1_Witness ==
  \E p \in Procs :
    /\ pc[p] = "done" /\ req[p].op = "reset" /\ req[p].valid /\ loc[p].late
    /\ <<req[p].userId, req[p].token>> \in consumed
    /\ loc[p].path = "no_token"
    /\ res[p].statusCode = 400

\* C2: a logout whose refresh token verifies and whose user exists clears the
\* accessToken and refreshToken cookies, leaves authToken alone and returns
\* an envelope with status code 200 instead of forwarding an error.
C2_LogoutSuccess ==
  [][\A p \in Procs :
       (/\ pc[p] = "lo_find" /\ pc'[p] = "done"
        /\ req[p].refreshToken.ok
        /\ \E u \in users : u.id = req[p].refreshToken.uid)
       => /\ cookies'[p].cleared = {"accessToken", "refreshToken"}
          /\ res'[p].statusCode = 200
          /\ res'[p].fwd = "none"]_vars

\* C3: in every reachable state every user id owns at most one Token record.
C3_AtMostOneTokenPerUser ==
  \A u \in UserIds : Cardinality({t \in tokens : t.userId = u}) <= 1

\* two requestPasswordReset calls both read "no token"; one saved, the other
\* one's save was turned down by the store
C3_Witness ==
  \E p \in Procs :
    /\ pc[p] = "done" /\ req[p].op = "request"
    /\ loc[p].path = "duplicate_token"
    /\ \E t \in tokens : t.userId = loc[p].user /\ t.resetPasswordToken # loc[p].tokVal

\* C4: the successful requestPasswordReset calls made for one account since
\* that account's last successful resetPassword all returned the same token.
C4_RequestIdempotent ==
  \A u \in UserIds : Cardinality(retLog[u]) <= 1

\* two calls for the same account returned the same token, the second by reuse
C4_Witness ==
  \E p, q \in Procs :
    /\ p # q
    /\ pc[p] = "done" /\ req[p].op = "request" /\ res[p].statusCode = 200
    /\ pc[q] = "done" /\ req[q].op = "request" /\ res[q].statusCode = 200
    /\ loc[p].user = loc[q].user
    /\ loc[p].path = "created" /\ loc[q].path = "reused"
    /\ res[p].payload = res[q].payload
    /\ retLog[loc[p].user] = {res[p].payload.tok}

\* C5: a resetPassword whose user exists and whose token string matches no
\* stored Token of that user returns the 400 envelope, and the lookup step
\* leaves users and tokens as they were and sends no e-mail.
C5_WrongTokenRejected ==
  [][\A p \in Procs :
       (/\ pc[p] = "rs_tok" /\ pc'[p] # "rs_tok"
        /\ ~ \E t \in tokens : /\ t.userId = req[p].userId
                               /\ t.resetPasswordToken = req[p].token)
       => /\ pc'[p] = "done"
          /\ res'[p] = [payload |-> EmptyPayload, success |-> FALSE, isError |-> TRUE,
                        message |-> <<"Password reset token is invalid or has expired.">>,
                        statusCode |-> 400, fwd |-> "none"]
          /\ users' = users
          /\ tokens' = tokens
          /\ loc'[p].mail = "none"
          /\ ~loc'[p].wrote]_vars

\* a call for an existing user who owns a token, made with another token string, was turned down
C5_Witness ==
  \E p \in Procs :
    /\ pc[p] = "done" /\ req[p].op = "reset" /\ loc[p].path = "no_token"
    /\ \E u \in users : u.id = req[p].userId
    /\ \E t \in tokens : t.userId = req[p].userId /\ t.resetPasswordToken # req[p].token
    /\ res[p].statusCode = 400
    /\ ~loc[p].wrote /\ loc[p].mail = "none"

\* C6: a resetPassword whose (userId, token) matches a stored Token whose
\* expiry has passed returns the 400 envelope, and requestPasswordReset never
\* hands out a stored token that has expired.
C6_ExpiredTokenRejected ==
  [][\A p \in Procs :
       /\ (/\ pc[p] = "rs_tok" /\ pc'[p] # "rs_tok"
           /\ \E t \in tokens : /\ t.userId = req[p].userId
                                /\ t.resetPasswordToken = req[p].token
                                /\ t.resetPasswordExpires <= now)
          => (pc'[p] = "done" /\ res'[p].statusCode = 400)
       /\ (/\ pc[p] = "rq_tok" /\ pc'[p] = "done" /\ res'[p].statusCode = 200)
          => \A t \in tokens :
               (t.userId = loc[p].user /\ t.resetPasswordToken = res'[p].payload.tok)
                 => t.resetPasswordExpires > now]_vars

\* C7: a validation-clean signup whose email is already stored returns the
\* 409 error envelope, issues no token and leaves the user store unchanged,
\* with exactly one account of that email.
C7_DuplicateSignup ==
  [][\A p \in Procs :
       (/\ pc[p] = "su_save" /\ pc'[p] # "su_save"
        /\ \E u \in users : u.email = req[p].email)
       => /\ pc'[p] = "done"
          /\ res'[p].isError /\ ~res'[p].success
          /\ res'[p].statusCode = 409
          /\ res'[p].fwd = "none"
          /\ res'[p].payload = EmptyPayload
          /\ users' = users
          /\ issuedRefresh' = issuedRefresh
          /\ Cardinality({u \in users' : u.email = req[p].email}) = 1]_vars

\* a signup was turned down for an email another account holds
C7_Witness ==
  \E p \in Procs :
    /\ pc[p] = "done" /\ req[p].op = "signup" /\ req[p].valid
    /\ loc[p].path = "duplicate_email"
    /\ res[p].statusCode = 409
    /\ \E u \in users : u.email = req[p].email /\ u.id # loc[p].user

\* C8: a validation-clean login that fails because no account has the email
\* and one that fails because the password does not match both return the
\* same envelope (message 'Auth Failed (Invalid Credentials)', code 401,
\* success false, isError true, empty payload) and set no cookie.
C8_LoginEnumerationResistance ==
  [][\A p \in Procs :
       (/\ pc[p] = "li_find" /\ pc'[p] # "li_find"
        /\ \/ ~ \E u \in users : u.email = req[p].email
           \/ \E u \in users : u.email = req[p].email /\ u.password # Hash(req[p].password))
       => /\ pc'[p] = "done"
          /\ res'[p] = [payload |-> EmptyPayload, success |-> FALSE, isError |-> TRUE,
                        message |-> <<"Auth Failed (Invalid Credentials)">>,
                        statusCode |-> 401, fwd |-> "none"]
          /\ cookies'[p] = NoCookies]_vars

\* one login failed on a missing account, another on a wrong password, with equal envelopes
C8_Witness ==
  \E p, q \in Procs :
    /\ pc[p] = "done" /\ req[p].op = "login" /\ loc[p].path = "no_user"
    /\ pc[q] = "done" /\ req[q].op = "login" /\ loc[q].path = "bad_password"
    /\ res[p] = res[q]
    /\ res[p].statusCode = 401

\* C9: a logout whose refresh token verifies but whose user is no longer
\* stored returns the 'Unauthenticated' envelope with code 400 and clears no cookie.
C9_LogoutDeletedUser ==
  [][\A p \in Procs :
       (/\ pc[p] = "lo_find" /\ pc'[p] # "lo_find"
        /\ req[p].refreshToken.ok
        /\ ~ \E u \in users : u.id = req[p].refreshToken.uid)
       => /\ pc'[p] = "done"
          /\ res'[p].statusCode = 400
          /\ res'[p].message = <<"Unauthenticated">>
          /\ res'[p].fwd = "none"
          /\ cookies'[p] = NoCookies]_vars

\* a logout with a token signed for an account that was deleted since
C9_Witness ==
  \E p \in Procs :
    /\ pc[p] = "done" /\ req[p].op = "logout"
    /\ req[p].refreshToken.ok
    /\ req[p].refreshToken.uid \in issuedRefresh
    /\ ~ \E u \in users : u.id = req[p].refreshToken.uid
    /\ res[p].statusCode = 400

\* C10: of two concurrent resetPassword requests with the same (userId,
\* token), at most one overwrites the user's password.
C10_SingleUseUnderInterleaving ==
  \A p, q \in Procs :
    (/\ p # q
     /\ req[p].op = "reset" /\ req[q].op = "reset"
     /\ req[p].userId = req[q].userId /\ req[p].token = req[q].token)
    => ~(loc[p].wrote /\ loc[q].wrote)

====
